---------------------------- MODULE Spec2Model ----------------------------
(***************************************************************************)
(* Tender reconciliation engine: TenderReconciliationProcessor of          *)
(* tender_reconciliation_final_v8_updated.py.                              *)
(*                                                                         *)
(* Amounts.  A response value is a fixed-point integer h * Grain + e that  *)
(* stands for the decimal h/2 + e * 0.0000005: h counts halves (the        *)
(* dashboard's threshold slider moves in steps of 0.5), e counts ticks of  *)
(* 5e-7 so that the 1e-6 tolerance of the code is Tolerance = 2 ticks.     *)
(* The inputs carry |e| <= 3 and a run adds up a handful of them, so the   *)
(* tick part never carries into the halves and integer +, <, >= on the     *)
(* encoding are the exact +, <, >= of the decimals.  Arithmetic is exact:  *)
(* binary floating point rounding is not modelled.                         *)
(***************************************************************************)
EXTENDS Integers, Sequences, FiniteSets, TLC

VARIABLES
    files,                  \* tender label -> the uploaded file: its format and the
                            \* rows of its CSV (data rows after the 5 skipped)
    netting_off_threshold,  \* self.netting_off_threshold
    approval_filter,        \* self.approval_filter
    tender_metrics,         \* self.tender_metrics: tender label -> counters
    result,                 \* what the last process_all_tenders call returned
    runs,                   \* how many times process_all_tenders ran on this instance
    total,                  \* argument of the last classify_total_response call
    label,                  \* what that call returned
    store_frame,            \* argument of the last find_and_remove_netting_items call
    netted                  \* what that call returned

vars == <<files, netting_off_threshold, approval_filter, tender_metrics, result, runs,
          total, label, store_frame, netted>>

----------------------------------------------------------------------------
(* Bounds *)

Grain == 64
MaxRows == 4
MaxRuns == 2
MaxDelta == 4

----------------------------------------------------------------------------
(* Amounts *)

Amt(h, e) == h * Grain + e

Hundred == Amt(200, 0)

Tolerance == 2

Abs(x) == IF x < 0 THEN -x ELSE x

\* Optional values: None is <<>>, a present value x is <<x>>.
None == <<>>
Some(x) == <<x>>

NaN == "NaN"

RECURSIVE SumResp(_)
SumResp(s) ==
    IF s = <<>> THEN 0 ELSE Head(s).Store_Response_Entry + SumResp(Tail(s))

RECURSIVE SeqToSet(_)
SeqToSet(s) == IF s = <<>> THEN {} ELSE {Head(s)} \cup SeqToSet(Tail(s))

RECURSIVE Flatten(_)
Flatten(ss) == IF ss = <<>> THEN <<>> ELSE Head(ss) \o Flatten(Tail(ss))

Min(S) == CHOOSE x \in S : \A y \in S : x <= y

\* The members of a set of integers in ascending order.
RECURSIVE Ascending(_)
Ascending(S) == IF S = {} THEN <<>> ELSE <<Min(S)>> \o Ascending(S \ {Min(S)})

----------------------------------------------------------------------------
(* Record Ingestor *)

Strip(s) ==
    CASE s = " " -> ""
      [] s = " NA " -> "NA"
      [] OTHER -> s

NullLikeMarkers == {"nan", "NaN", "NA", "NULL", "", "0", "None"}

\* Mutation of KeepRow: the approval marker is consulted in the
\* 'auto_approved_only' mode alone.
KeepRowByMode(row) ==
    /\ row.Store_ID # None
    /\ row.Store_Response_Entry # None
    /\ row.Store_Response_Entry[1] # 0
    /\ approval_filter = "auto_approved_only" =>
          /\ Strip(row.Auto_Approved_Date) \notin NullLikeMarkers
          /\ Strip(row.Auto_Approved_Date) # ""

\* Mutation of KeepRow: a zero response value is kept.
KeepRowZero(row) ==
    /\ row.Store_ID # None
    /\ row.Store_Response_Entry # None
    /\ Strip(row.Auto_Approved_Date) \notin NullLikeMarkers
    /\ Strip(row.Auto_Approved_Date) # ""

KeepRow(row) ==
    /\ row.Store_ID # None
    /\ row.Store_Response_Entry # None
    /\ row.Store_Response_Entry[1] # 0
    /\ Strip(row.Auto_Approved_Date) \notin NullLikeMarkers
    /\ Strip(row.Auto_Approved_Date) # ""

Entry(row, tender_name) ==
    [Store_ID |-> row.Store_ID[1],
     Store_Response_Entry |-> row.Store_Response_Entry[1],
     Auto_Approved_Date |-> Strip(row.Auto_Approved_Date),
     Sales_Date |-> row.Sales_Date,
     Tender_Type |-> tender_name]

RECURSIVE CleanRows(_, _)
CleanRows(rows, tender_name) ==
    IF rows = <<>> THEN <<>>
    ELSE (IF KeepRow(Head(rows)) THEN <<Entry(Head(rows), tender_name)>> ELSE <<>>)
         \o CleanRows(Tail(rows), tender_name)

\* The formats of an uploaded file: a CSV with the three required columns, a
\* CSV in which one of them cannot be resolved, and a file pd.read_csv raises
\* on under both encodings.
Csv == "csv"
MissingColumn == "missing column"
Unreadable == "unreadable"

\* Mutation of read_tender_file: a file is cleaned whatever its format.
read_tender_file_any_format(file, tender_name) ==
    IF file.rows = <<>> THEN None
    ELSE LET df == CleanRows(file.rows, tender_name)
         IN IF df = <<>> THEN None ELSE Some(df)

\* None when the file cannot be read, has no data rows, lacks a required
\* column, or nothing is left after cleaning.
read_tender_file(file, tender_name) ==
    IF file.format = Unreadable THEN None
    ELSE IF file.rows = <<>> THEN None
    ELSE IF file.format = MissingColumn THEN None
    ELSE LET df == CleanRows(file.rows, tender_name)
         IN IF df = <<>> THEN None ELSE Some(df)

----------------------------------------------------------------------------
(* Netter *)

\* df.sort_values('abs_value', ascending=False): descending magnitude, equal
\* magnitudes keep their order (the sort is stable on frames this small).
RECURSIVE InsertDesc(_, _)
InsertDesc(e, s) ==
    IF s = <<>> THEN <<e>>
    ELSE IF Abs(Head(s).Store_Response_Entry) >= Abs(e.Store_Response_Entry)
         THEN <<Head(s)>> \o InsertDesc(e, Tail(s))
         ELSE <<e>> \o s

RECURSIVE SortDesc(_)
SortDesc(s) ==
    IF s = <<>> THEN <<>>
    ELSE InsertDesc(s[Len(s)], SortDesc(SubSeq(s, 1, Len(s) - 1)))

\* Positions are 1-based here; the code's Netting_Members are 0-based.
PairRecord(df, i, j) ==
    [Store_ID |-> df[i].Store_ID,
     Sales_Date |-> df[i].Sales_Date,
     Tender_Type_1 |-> <<df[i].Tender_Type>>,
     Store_Response_Entry_1 |-> Some(df[i].Store_Response_Entry),
     Tender_Type_2 |-> Some(df[j].Tender_Type),
     Store_Response_Entry_2 |-> Some(df[j].Store_Response_Entry),
     Combined_Variance |-> Abs(df[i].Store_Response_Entry + df[j].Store_Response_Entry),
     Netting_Type |-> IF df[i].Tender_Type # df[j].Tender_Type
                      THEN "Cross-Tender" ELSE "Within-Tender",
     Netting_Members |-> <<i, j>>,
     Group_Sum |-> None]

\* Mutation of NetsOff: a combined variance equal to the threshold nets off too.
NetsOffInclusive(combined_variance, threshold) == combined_variance <= threshold

NetsOff(combined_variance, threshold) == combined_variance < threshold

\* Mutation of Partners: a used position may be taken as a partner again.
PartnersIgnoringUsed(df, used, i, threshold) ==
    {j \in (i + 1)..Len(df) :
        NetsOff(Abs(df[i].Store_Response_Entry + df[j].Store_Response_Entry), threshold)}

\* The later unused positions that net off with position i.
Partners(df, used, i, threshold) ==
    {j \in (i + 1)..Len(df) :
        /\ ~used[j]
        /\ NetsOff(Abs(df[i].Store_Response_Entry + df[j].Store_Response_Entry), threshold)}

\* 1) pair-wise greedy netting, from position i on.
RECURSIVE PairPass(_, _, _, _, _)
PairPass(df, i, used, recs, threshold) ==
    IF i > Len(df) THEN [used |-> used, recs |-> recs]
    ELSE IF used[i] THEN PairPass(df, i + 1, used, recs, threshold)
    ELSE LET cands == Partners(df, used, i, threshold)
         IN IF cands = {} THEN PairPass(df, i + 1, used, recs, threshold)
            ELSE LET j == Min(cands)
                 IN PairPass(df, i + 1,
                             [used EXCEPT ![i] = TRUE, ![j] = TRUE],
                             Append(recs, PairRecord(df, i, j)),
                             threshold)


\* Sorted group keys, as pandas groupby(sort=True) iterates them.
SalesDates == <<"2024-01-05", "2024-01-06">>
SortedTenders == <<"Card", "Cash">>

GroupRecord(df, idxs, sales_date, tender_types, group_sum, netting_type) ==
    [Store_ID |-> df[idxs[1]].Store_ID,
     Sales_Date |-> sales_date,
     Tender_Type_1 |-> tender_types,
     Store_Response_Entry_1 |-> None,
     Tender_Type_2 |-> None,
     Store_Response_Entry_2 |-> None,
     Combined_Variance |-> Abs(group_sum),
     Netting_Type |-> netting_type,
     Netting_Members |-> idxs,
     Group_Sum |-> Some(group_sum)]

RECURSIVE SumAt(_, _)
SumAt(df, idxs) ==
    IF idxs = <<>> THEN 0
    ELSE df[Head(idxs)].Store_Response_Entry + SumAt(df, Tail(idxs))

MarkUsed(used, idxs) == [p \in DOMAIN used |-> used[p] \/ p \in SeqToSet(idxs)]

\* df[~pd.Series(used_flags)]: the positions a group pass looks at.  Rows whose
\* Sales_Date is NaN are dropped by groupby and belong to no group.
Unused(df, used) == {p \in 1..Len(df) : ~used[p]}

\* 2) multi-entry netting by (Sales_Date, Tender_Type); `open` is the frame
\* taken when the pass starts, d and t walk the sorted keys.
RECURSIVE WithinMultiplePass(_, _, _, _, _, _, _)
WithinMultiplePass(df, open, d, t, used, recs, threshold) ==
    IF d > Len(SalesDates) THEN [used |-> used, recs |-> recs]
    ELSE IF t > Len(SortedTenders)
         THEN WithinMultiplePass(df, open, d + 1, 1, used, recs, threshold)
    ELSE LET idxs == Ascending({p \in open : /\ df[p].Sales_Date = SalesDates[d]
                                             /\ df[p].Tender_Type = SortedTenders[t]})
             group_sum == SumAt(df, idxs)
         IN IF Len(idxs) >= 2 /\ NetsOff(Abs(group_sum), threshold)
            THEN WithinMultiplePass(df, open, d, t + 1, MarkUsed(used, idxs),
                     Append(recs, GroupRecord(df, idxs, SalesDates[d],
                                              <<SortedTenders[t]>>, group_sum,
                                              "Within-Tender-Multiple entries")),
                     threshold)
            ELSE WithinMultiplePass(df, open, d, t + 1, used, recs, threshold)

\* Mutation of UniqueTenders: the tender of the group's first entry alone.
UniqueTendersFirst(df, idxs, seen) ==
    IF idxs = <<>> THEN seen ELSE <<df[Head(idxs)].Tender_Type>>

\* grp['Tender_Type'].unique(): distinct values in order of first appearance.
RECURSIVE UniqueTenders(_, _, _)
UniqueTenders(df, idxs, seen) ==
    IF idxs = <<>> THEN seen
    ELSE UniqueTenders(df, Tail(idxs),
             IF df[Head(idxs)].Tender_Type \in SeqToSet(seen) THEN seen
             ELSE Append(seen, df[Head(idxs)].Tender_Type))

\* Mutation of CrossPassFrame: the third pass groups the whole frame, used
\* entries included.
CrossPassFrameAll(df, used) == 1..Len(df)

\* The frame the third pass groups by Sales_Date.
CrossPassFrame(df, used) == Unused(df, used)

\* 3) multi-entry cross-tender netting by Sales_Date alone.
RECURSIVE CrossMultiplePass(_, _, _, _, _, _)
CrossMultiplePass(df, open, d, used, recs, threshold) ==
    IF d > Len(SalesDates) THEN [used |-> used, recs |-> recs]
    ELSE LET idxs == Ascending({p \in open : df[p].Sales_Date = SalesDates[d]})
             group_sum == SumAt(df, idxs)
             tender_types == UniqueTenders(df, idxs, <<>>)
         IN IF Len(idxs) >= 2 /\ NetsOff(Abs(group_sum), threshold)
            THEN CrossMultiplePass(df, open, d + 1, MarkUsed(used, idxs),
                     Append(recs, GroupRecord(df, idxs, SalesDates[d], tender_types,
                                group_sum,
                                IF Len(tender_types) > 1
                                THEN "Cross-Tender-Multiple entries"
                                ELSE "Within-Tender-Multiple entries")),
                     threshold)
            ELSE CrossMultiplePass(df, open, d + 1, used, recs, threshold)

\* Mutation of WithinMultiple: the second pass is left out.
WithinMultipleSkipped(df, p1, threshold) == p1

\* Mutation of CrossMultiple: the third pass is left out.
CrossMultipleSkipped(df, p2, threshold) == p2

\* Mutation of WithinMultiple: the second pass groups the whole frame, used
\* entries included.
WithinMultipleOnAll(df, p1, threshold) ==
    WithinMultiplePass(df, 1..Len(df), 1, 1, p1.used, p1.recs, threshold)

\* Mutation of PairWise: the first pass is left out.
PairWiseSkipped(df, threshold) == [used |-> [p \in 1..Len(df) |-> FALSE], recs |-> <<>>]

\* The three passes in their order, each starting from the flags and records
\* the one before left.
PairWise(df, threshold) ==
    PairPass(df, 1, [p \in 1..Len(df) |-> FALSE], <<>>, threshold)

WithinMultiple(df, p1, threshold) ==
    WithinMultiplePass(df, Unused(df, p1.used), 1, 1, p1.used, p1.recs, threshold)

CrossMultiple(df, p2, threshold) ==
    CrossMultiplePass(df, CrossPassFrame(df, p2.used), 1, p2.used, p2.recs, threshold)

PassesEnd(df, p3) == [df |-> df, used |-> p3.used, recs |-> p3.recs]

PassesOn(df, threshold) ==
    PassesEnd(df, CrossMultiple(df, WithinMultiple(df, PairWise(df, threshold), threshold),
                                threshold))

\* The three passes on a store of two or more entries: the sorted frame, the
\* used flags and the netting records when the passes end.
NettingPasses(store_df, threshold) == PassesOn(SortDesc(store_df), threshold)

RECURSIVE RowsAt(_, _)
RowsAt(df, idxs) ==
    IF idxs = <<>> THEN <<>> ELSE <<df[Head(idxs)]>> \o RowsAt(df, Tail(idxs))

\* The final check on the entries no pass used.
RemainsException(total_remaining) == total_remaining >= Hundred - Tolerance

\* Lines 272-283: the never-used rows are returned when they pass the final
\* check, an empty frame otherwise; the netting records in both cases.
FinalCheck(exceptional_df, netting_records) ==
    IF exceptional_df # <<>> /\ RemainsException(Abs(SumResp(exceptional_df)))
    THEN [exceptional |-> exceptional_df, netting_ref |-> netting_records]
    ELSE [exceptional |-> <<>>, netting_ref |-> netting_records]

Remaining(n) == FinalCheck(RowsAt(n.df, Ascending(Unused(n.df, n.used))), n.recs)

find_and_remove_netting_items(store_df, threshold) ==
    IF Len(store_df) <= 1
    THEN IF Len(store_df) = 1 /\ Abs(SumResp(store_df)) >= Hundred
         THEN [exceptional |-> store_df, netting_ref |-> <<>>]
         ELSE [exceptional |-> <<>>, netting_ref |-> <<>>]
    ELSE Remaining(NettingPasses(store_df, threshold))

----------------------------------------------------------------------------
(* Classifier *)

\* self.classification_thresholds, in table order: (min_val, max_val, label).
\* Infinity is an amount above every amount of the model.
Infinity == Amt(4000000, 0)

classification_thresholds ==
    << <<Amt(0, 0), Hundred, "Diff less than +/- 100">>,
       <<Hundred, Amt(2000, 0), "Diff b/w +/- 1000">>,
       <<Amt(2000, 0), Amt(10000, 0), "Diff b/w +/- 5000">>,
       <<Amt(10000, 0), Amt(20000, 0), "Diff b/w +/- 10000">>,
       <<Amt(20000, 0), Amt(50000, 0), "Diff b/w +/- 25000">>,
       <<Amt(50000, 0), Amt(100000, 0), "Diff b/w +/- 50000">>,
       <<Amt(100000, 0), Infinity, "Diff more than +/- 50000">> >>

InRange(abs_total, min_val, max_val) == min_val <= abs_total /\ abs_total <= max_val

\* The first table row whose range holds abs(total); the top label otherwise.
classify_total_response(t) ==
    LET abs_total == Abs(t)
        hits == {k \in 1..Len(classification_thresholds) :
                    InRange(abs_total, classification_thresholds[k][1],
                            classification_thresholds[k][2])}
    IN IF hits = {} THEN "Diff more than +/- 50000"
       ELSE classification_thresholds[Min(hits)][3]

----------------------------------------------------------------------------
(* Aggregator, Metrics Collector and Result Assembler *)

\* tender_files.items(): the dashboard fills the mapping in this order.
TenderLabels == <<"Cash", "Card">>

\* A percentage n / d * 100 kept as the exact fraction num / den.
Percent(n, d) == IF d > 0 THEN [num |-> n * 100, den |-> d] ELSE [num |-> 0, den |-> 1]

FreshMetrics(df) ==
    [total_entries |-> Len(df),
     exception_entries |-> 0,
     cross_tender_netting |-> 0,
     within_tender_netting |-> 0,
     total_netting_variance |-> 0]

\* The first loop: every tender label with its ingested frame (None when the
\* file yields no data).
Ingested(fs) == [k \in 1..Len(TenderLabels) |-> read_tender_file(fs[TenderLabels[k]], TenderLabels[k])]

RECURSIVE ProcessedTenders(_, _)
ProcessedTenders(ing, k) ==
    IF k > Len(TenderLabels) THEN <<>>
    ELSE (IF ing[k] # None THEN <<TenderLabels[k]>> ELSE <<>>) \o ProcessedTenders(ing, k + 1)

RECURSIVE CombinedData(_, _)
CombinedData(ing, k) ==
    IF k > Len(TenderLabels) THEN <<>>
    ELSE (IF ing[k] # None THEN ing[k][1] ELSE <<>>) \o CombinedData(ing, k + 1)

\* Mutation of MetricsAfterIngest: a tender that already has an entry keeps it
\* (setdefault instead of assignment), so its counters carry over.
MetricsAfterIngestKeep(metrics, ing) ==
    LET fresh == {k \in 1..Len(TenderLabels) : ing[k] # None}
        frame(t) == ing[CHOOSE k \in fresh : TenderLabels[k] = t][1]
    IN [t \in DOMAIN metrics \cup {TenderLabels[k] : k \in fresh} |->
            IF t \in DOMAIN metrics THEN metrics[t] ELSE FreshMetrics(frame(t))]

\* self.tender_metrics after the first loop: a fresh entry for every tender
\* ingested by this run, the entries of earlier runs kept for the others.
MetricsAfterIngest(metrics, ing) ==
    LET fresh == {k \in 1..Len(TenderLabels) : ing[k] # None}
        frame(t) == ing[CHOOSE k \in fresh : TenderLabels[k] = t][1]
    IN [t \in DOMAIN metrics \cup {TenderLabels[k] : k \in fresh} |->
            IF \E k \in fresh : TenderLabels[k] = t THEN FreshMetrics(frame(t))
            ELSE metrics[t]]

StoreRows(combined_data, store_id) ==
    SelectSeq(combined_data, LAMBDA e : e.Store_ID = store_id)

TenderRows(df, tender_name) ==
    SelectSeq(df, LAMBDA e : e.Tender_Type = tender_name)

StoreIds(combined_data) == Ascending({combined_data[p].Store_ID : p \in 1..Len(combined_data)})

\* Mutation of IsCandidate: any store with a non-zero net total is a candidate.
IsCandidateNonZero(store_total) == Abs(store_total) > 0

\* exception_mask: the store-level gate on the absolute net total.
IsCandidate(store_total) == Abs(store_total) >= Hundred

\* Mutation of ExceptionStoreIds: the mask is not applied.
ExceptionStoreIdsUnmasked(combined_data) == StoreIds(combined_data)

ExceptionStoreIds(combined_data) ==
    SelectSeq(StoreIds(combined_data),
              LAMBDA s : IsCandidate(SumResp(StoreRows(combined_data, s))))

\* The tenders a netting record's counters go to: Tender_Type_1 split on ','.
AttributedTenders(rec) == rec.Tender_Type_1

CountRecord(m, rec) ==
    [m EXCEPT
        !.cross_tender_netting =
            IF rec.Netting_Type \in {"Cross-Tender", "Cross-Tender-Multiple entries"}
            THEN @ + 1 ELSE @,
        !.within_tender_netting =
            IF rec.Netting_Type \in {"Cross-Tender", "Cross-Tender-Multiple entries"}
            THEN @ ELSE @ + 1,
        !.total_netting_variance = @ + rec.Combined_Variance]

RECURSIVE AttributeRecord(_, _, _)
AttributeRecord(metrics, names, rec) ==
    IF names = <<>> THEN metrics
    ELSE AttributeRecord(
             IF Head(names) \in DOMAIN metrics
             THEN [metrics EXCEPT ![Head(names)] = CountRecord(@, rec)]
             ELSE metrics,
             Tail(names), rec)

RECURSIVE AttributeRecords(_, _)
AttributeRecords(metrics, recs) ==
    IF recs = <<>> THEN metrics
    ELSE AttributeRecords(AttributeRecord(metrics, AttributedTenders(Head(recs)), Head(recs)),
                          Tail(recs))

\* Mutation of PassesGate: the 1e-6 tolerance is left out.
PassesGateNoTolerance(total_exc) == total_exc >= Hundred

\* The gate process_all_tenders applies to a store's exceptional items.
PassesGate(total_exc) == total_exc >= Hundred - Tolerance

\* Mutation of KeepExceptions: every tender is credited with all of the
\* store's exceptional items instead of its own.
RECURSIVE KeepExceptionsAll(_, _, _)
KeepExceptionsAll(acc, exceptional_items, tenders) ==
    IF tenders = <<>> THEN acc
    ELSE LET tender_items == TenderRows(exceptional_items, Head(tenders))
         IN KeepExceptionsAll(
                IF tender_items = <<>> THEN acc
                ELSE [acc EXCEPT
                        !.metrics[Head(tenders)].exception_entries = @ + Len(exceptional_items),
                        !.exceptions[Head(tenders)] = @ \o tender_items],
                exceptional_items, Tail(tenders))

\* Mutation of KeepExceptions: the items are kept and not counted.
RECURSIVE KeepExceptionsUncounted(_, _, _)
KeepExceptionsUncounted(acc, exceptional_items, tenders) ==
    IF tenders = <<>> THEN acc
    ELSE LET tender_items == TenderRows(exceptional_items, Head(tenders))
         IN KeepExceptionsUncounted(
                IF tender_items = <<>> THEN acc
                ELSE [acc EXCEPT !.exceptions[Head(tenders)] = @ \o tender_items],
                exceptional_items, Tail(tenders))

\* Lines 366-372: count and keep a store's exceptional items per tender.
RECURSIVE KeepExceptions(_, _, _)
KeepExceptions(acc, exceptional_items, tenders) ==
    IF tenders = <<>> THEN acc
    ELSE LET tender_items == TenderRows(exceptional_items, Head(tenders))
         IN KeepExceptions(
                IF tender_items = <<>> THEN acc
                ELSE [acc EXCEPT
                        !.metrics[Head(tenders)].exception_entries = @ + Len(tender_items),
                        !.exceptions[Head(tenders)] = @ \o tender_items],
                exceptional_items, Tail(tenders))

\* Lines 345-361: log a store's netting records and count them.
LogNetting(acc, netting_ref) ==
    [acc EXCEPT !.netting = @ \o netting_ref,
                !.metrics = AttributeRecords(@, netting_ref)]

\* Lines 363-372: keep a store's exceptional items when they pass the gate.
GateExceptions(acc, exceptional_items, processed_tenders) ==
    IF exceptional_items # <<>> /\ PassesGate(Abs(SumResp(exceptional_items)))
    THEN KeepExceptions(acc, exceptional_items, processed_tenders)
    ELSE acc

StoreStep(acc, found, processed_tenders) ==
    GateExceptions(LogNetting(acc, found.netting_ref), found.exceptional, processed_tenders)

\* Lines 338-372: the loop over the candidate stores.
RECURSIVE StoreLoop(_, _, _, _, _)
StoreLoop(acc, store_ids, combined_data, processed_tenders, threshold) ==
    IF store_ids = <<>> THEN acc
    ELSE StoreLoop(StoreStep(acc,
                             find_and_remove_netting_items(
                                 StoreRows(combined_data, Head(store_ids)), threshold),
                             processed_tenders),
                   Tail(store_ids), combined_data, processed_tenders, threshold)

SummaryRow(store_id, responses, exceptional_items, new_total, processed_tenders) ==
    [Store_ID |-> store_id,
     Total_Auto_Updated_Responses |-> responses,
     Exceptional_Line_Items |-> Len(exceptional_items),
     Sum_of_Exceptional_Responses |-> new_total,
     Classification |-> classify_total_response(new_total),
     Error_Rate |-> Percent(Len(exceptional_items), responses),
     Tender_Sum |-> [t \in SeqToSet(processed_tenders) |->
                         SumResp(TenderRows(exceptional_items, t))]]

\* Mutation of SummaryRows: the summary's gate leaves the 1e-6 tolerance out.
SummaryRowsNoTolerance(store_id, responses, exceptional_items, processed_tenders) ==
    IF exceptional_items # <<>> /\ Abs(SumResp(exceptional_items)) >= Hundred
    THEN <<SummaryRow(store_id, responses, exceptional_items, SumResp(exceptional_items),
                      processed_tenders)>>
    ELSE <<>>

\* Lines 392-411: the summary rows, one or none, of a candidate store.
SummaryRows(store_id, responses, exceptional_items, processed_tenders) ==
    IF exceptional_items # <<>> /\ PassesGate(Abs(SumResp(exceptional_items)))
    THEN <<SummaryRow(store_id, responses, exceptional_items, SumResp(exceptional_items),
                      processed_tenders)>>
    ELSE <<>>

\* Lines 387-411: the second loop over the candidate stores.
RECURSIVE SummaryData(_, _, _, _)
SummaryData(store_ids, combined_data, processed_tenders, threshold) ==
    IF store_ids = <<>> THEN <<>>
    ELSE SummaryRows(Head(store_ids),
                     Len(StoreRows(combined_data, Head(store_ids))),
                     find_and_remove_netting_items(
                         StoreRows(combined_data, Head(store_ids)), threshold).exceptional,
                     processed_tenders)
         \o SummaryData(Tail(store_ids), combined_data, processed_tenders, threshold)

\* value_counts over the summary's Classification, in severity order.
RECURSIVE ClassificationCounts(_, _)
ClassificationCounts(summary, k) ==
    IF k > Len(classification_thresholds) THEN <<>>
    ELSE LET lbl == classification_thresholds[k][3]
             n == Cardinality({p \in 1..Len(summary) : summary[p].Classification = lbl})
         IN (IF n > 0 THEN <<[Classification |-> lbl, Store_Count |-> n]>> ELSE <<>>)
            \o ClassificationCounts(summary, k + 1)

PerformanceRow(tender_name, m) ==
    [Tender |-> tender_name,
     Total_Entries |-> m.total_entries,
     Exceptional_Entries |-> m.exception_entries,
     Exception_Rate |-> Percent(m.exception_entries, m.total_entries),
     Items_Removed_by_Netting |-> m.cross_tender_netting + m.within_tender_netting,
     Total_Netting_Variance |-> m.total_netting_variance]

RECURSIVE TenderPerformance(_, _)
TenderPerformance(tenders, metrics) ==
    IF tenders = <<>> THEN <<>>
    ELSE <<PerformanceRow(Head(tenders), metrics[Head(tenders)])>>
         \o TenderPerformance(Tail(tenders), metrics)

\* Mutation of EmptyBundle: every aggregated store is counted as an exception
\* store.
EmptyBundleCountingStores(processed_tenders, total_stores) ==
    [summary |-> <<>>,
     classification |-> <<>>,
     exceptions |-> [t \in SeqToSet(processed_tenders) |-> <<>>],
     netting_reference |-> <<>>,
     tender_performance |-> <<>>,
     tender_names |-> processed_tenders,
     total_stores |-> total_stores,
     exception_stores |-> total_stores]

\* Lines 322-332: the bundle of a run without candidate stores.
EmptyBundle(processed_tenders, total_stores) ==
    [summary |-> <<>>,
     classification |-> <<>>,
     exceptions |-> [t \in SeqToSet(processed_tenders) |-> <<>>],
     netting_reference |-> <<>>,
     tender_performance |-> <<>>,
     tender_names |-> processed_tenders,
     total_stores |-> total_stores,
     exception_stores |-> 0]

\* Lines 454-463: the bundle of a run with candidate stores.
FullBundle(acc, summary, processed_tenders, total_stores, exception_store_ids) ==
    [summary |-> summary,
     classification |-> ClassificationCounts(summary, 1),
     exceptions |-> acc.exceptions,
     netting_reference |-> acc.netting,
     tender_performance |-> TenderPerformance(processed_tenders, acc.metrics),
     tender_names |-> processed_tenders,
     total_stores |-> total_stores,
     exception_stores |-> Len(exception_store_ids)]

\* Lines 334-463: the run once the candidate stores are known.
Reconcile(acc, summary, processed_tenders, total_stores, exception_store_ids) ==
    [metrics |-> acc.metrics,
     returned |-> Some(FullBundle(acc, summary, processed_tenders, total_stores,
                                  exception_store_ids))]

\* Lines 305-463: the run once the tenders are ingested.
Aggregate(metrics0, processed_tenders, combined_data, exception_store_ids, threshold) ==
    IF processed_tenders = <<>>
    THEN [metrics |-> metrics0, returned |-> None]
    ELSE IF exception_store_ids = <<>>
    THEN [metrics |-> metrics0,
          returned |-> Some(EmptyBundle(processed_tenders, Len(StoreIds(combined_data))))]
    ELSE Reconcile(StoreLoop([metrics |-> metrics0,
                              netting |-> <<>>,
                              exceptions |-> [t \in SeqToSet(processed_tenders) |-> <<>>]],
                             exception_store_ids, combined_data, processed_tenders,
                             threshold),
                   SummaryData(exception_store_ids, combined_data, processed_tenders,
                               threshold),
                   processed_tenders, Len(StoreIds(combined_data)), exception_store_ids)

Ingestion(metrics, ing, combined_data, threshold) ==
    Aggregate(MetricsAfterIngest(metrics, ing), ProcessedTenders(ing, 1), combined_data,
              ExceptionStoreIds(combined_data), threshold)

\* process_all_tenders as a function of the instance's metrics and the files:
\* the metrics it leaves in self.tender_metrics and the value it returns.
process_all_tenders(metrics, fs, threshold) ==
    Ingestion(metrics, Ingested(fs), CombinedData(Ingested(fs), 1), threshold)

----------------------------------------------------------------------------
(* Inputs *)

Approved == "2024-01-07 10:15"

Row(store_id, response, sales_date, approved) ==
    [Store_ID |-> store_id,
     Store_Response_Entry |-> response,
     Sales_Date |-> sales_date,
     Auto_Approved_Date |-> approved]

Line(tender, store_id, response, sales_date) ==
    [file |-> tender, row |-> Row(Some(store_id), Some(response), sales_date, Approved)]

\* The rows an uploaded file may hold, in file order.  Store 404 carries the
\* netting cases (pairs, a three-entry group, amounts at the 100 gate), store
\* 303 a second store, and four rows are ones the Ingestor drops.
Catalogue ==
    << Line("Cash", 404, Amt(100, 0), SalesDates[1]),
       Line("Cash", 404, Amt(-96, 0), SalesDates[1]),
       Line("Cash", 404, Amt(60, 0), SalesDates[1]),
       Line("Cash", 404, Amt(-61, 0), SalesDates[1]),
       Line("Cash", 404, Amt(-40, 0), SalesDates[1]),
       Line("Cash", 404, Amt(300, 0), SalesDates[2]),
       Line("Cash", 404, Amt(200, -1), SalesDates[2]),
       Line("Cash", 404, Amt(200, -3), NaN),
       Line("Cash", 303, Amt(300, 0), SalesDates[1]),
       Line("Cash", 303, Amt(100, 0), SalesDates[1]),
       [file |-> "Cash", row |-> Row(Some(303), Some(0), SalesDates[1], Approved)],
       [file |-> "Cash", row |-> Row(Some(404), Some(Amt(300, 0)), SalesDates[1], " ")],
       Line("Card", 404, Amt(-96, 0), SalesDates[1]),
       Line("Card", 404, Amt(-61, 0), SalesDates[1]),
       Line("Card", 303, Amt(-96, 0), SalesDates[1]),
       [file |-> "Card", row |-> Row(None, Some(Amt(300, 0)), SalesDates[1], Approved)],
       [file |-> "Card", row |-> Row(Some(303), None, SalesDates[2], "nan")] >>

RECURSIVE Pick(_, _, _)
Pick(S, k, tender) ==
    IF k > Len(Catalogue) THEN <<>>
    ELSE (IF k \in S /\ Catalogue[k].file = tender THEN <<Catalogue[k].row>> ELSE <<>>)
         \o Pick(S, k + 1, tender)

\* The ways an upload can be unusable as a whole.
Faults ==
    << [file |-> "Cash", format |-> MissingColumn],
       [file |-> "Card", format |-> Unreadable] >>

FormatOf(F, tender) ==
    IF \E k \in F : Faults[k].file = tender
    THEN Faults[CHOOSE k \in F : Faults[k].file = tender].format
    ELSE Csv

\* The uploads that hold the catalogue lines numbered in S, with the faults
\* numbered in F.
Upload(S, F) ==
    [t \in SeqToSet(TenderLabels) |-> [format |-> FormatOf(F, t), rows |-> Pick(S, 1, t)]]

\* 'all' is the constructor's default, the dashboard passes either.
ApprovalFilters == {"all", "auto_approved_only"}

\* The entries a store's frame may hold when the Netter is called on it, in
\* the order of the combined data (Cash before Card): pairs that net off
\* within and across tenders and dates, groups of three that net off only as
\* a whole, the pair +1500 / -1200, an entry of exactly 100, and entries
\* without a sales date.
NetterEntry(tender, response, sales_date) ==
    [Store_ID |-> 404,
     Store_Response_Entry |-> response,
     Auto_Approved_Date |-> Approved,
     Sales_Date |-> sales_date,
     Tender_Type |-> tender]

NetterCatalogue ==
    << NetterEntry("Cash", Amt(100, 0), SalesDates[1]),
       NetterEntry("Cash", Amt(-96, 0), SalesDates[1]),
       NetterEntry("Cash", Amt(-60, 0), SalesDates[1]),
       NetterEntry("Cash", Amt(-40, 0), SalesDates[1]),
       NetterEntry("Cash", Amt(3000, 0), SalesDates[1]),
       NetterEntry("Cash", Amt(200, 0), SalesDates[2]),
       NetterEntry("Cash", Amt(100, 0), NaN),
       NetterEntry("Cash", Amt(-60, 0), NaN),
       NetterEntry("Cash", Amt(-40, 0), NaN),
       NetterEntry("Card", Amt(-96, 0), SalesDates[1]),
       NetterEntry("Card", Amt(-104, 0), SalesDates[1]),
       NetterEntry("Card", Amt(-61, 0), SalesDates[1]),
       NetterEntry("Card", Amt(-2400, 0), SalesDates[1]),
       NetterEntry("Card", Amt(-61, 0), NaN),
       NetterEntry("Card", Amt(-100, 0), SalesDates[2]) >>

\* The frames of at most MaxRows catalogue entries.
NetterFrames ==
    {RowsAt(NetterCatalogue, Ascending(S)) :
        S \in {T \in SUBSET (1..Len(NetterCatalogue)) : Cardinality(T) <= MaxRows}}

\* Netting thresholds 2.0 and 5.0 (the default).
Thresholds == {Amt(4, 0), Amt(10, 0)}

\* Amounts around every boundary of the classification table, of either sign.
ClassifyInputs ==
    {sign * (classification_thresholds[k][1] + d) :
        sign \in {-1, 1}, k \in 1..Len(classification_thresholds), d \in -MaxDelta..MaxDelta}

----------------------------------------------------------------------------
(* The processor *)

\* The uploads of at most MaxRows lines and faults together.
Uploads ==
    {Upload(S, F) : <<S, F>> \in
        {sf \in (SUBSET (1..Len(Catalogue))) \X (SUBSET (1..Len(Faults))) :
            Cardinality(sf[1]) + Cardinality(sf[2]) <= MaxRows}}

Init ==
    /\ files \in Uploads
    /\ netting_off_threshold \in Thresholds
    /\ approval_filter = "all"
    /\ tender_metrics = <<>>
    /\ result = None
    /\ runs = 0
    /\ total = 0
    /\ label = ""
    /\ store_frame = <<>>
    /\ netted = None

\* One call of process_all_tenders on this instance.
ProcessAllTenders ==
    /\ runs < MaxRuns
    /\ \E out \in {process_all_tenders(tender_metrics, files, netting_off_threshold)} :
          /\ tender_metrics' = out.metrics
          /\ result' = out.returned
    /\ runs' = runs + 1
    /\ UNCHANGED <<files, netting_off_threshold, approval_filter, total, label,
                   store_frame, netted>>

Next == ProcessAllTenders

Spec == Init /\ [][Next]_vars

\* The two approval filter modes: after a run of a processor constructed with
\* 'all', a processor is constructed with 'auto_approved_only' and the same
\* threshold, and runs on the same files.
Reconstruct ==
    /\ approval_filter = "all"
    /\ runs >= 1
    /\ approval_filter' = "auto_approved_only"
    /\ tender_metrics' = <<>>
    /\ runs' = 0
    /\ UNCHANGED <<files, netting_off_threshold, result, total, label, store_frame, netted>>

NextModes == ProcessAllTenders \/ Reconstruct

SpecModes == Init /\ [][NextModes]_vars

\* The Netter on its own: an instance that holds no files, and a store's frame
\* handed to find_and_remove_netting_items.
InitNetter ==
    /\ files = Upload({}, {})
    /\ netting_off_threshold \in Thresholds
    /\ approval_filter = "all"
    /\ tender_metrics = <<>>
    /\ result = None
    /\ runs = 0
    /\ total = 0
    /\ label = ""
    /\ store_frame \in NetterFrames
    /\ netted = None

FindAndRemoveNettingItems ==
    /\ netted' = Some(find_and_remove_netting_items(store_frame, netting_off_threshold))
    /\ UNCHANGED <<files, netting_off_threshold, approval_filter, tender_metrics, result,
                   runs, total, label, store_frame>>

NextNetter == FindAndRemoveNettingItems

SpecNetter == InitNetter /\ [][NextNetter]_vars

\* The classifier on its own: an instance that holds no files.
InitClassify ==
    /\ files = Upload({}, {})
    /\ netting_off_threshold \in Thresholds
    /\ approval_filter = "all"
    /\ tender_metrics = <<>>
    /\ result = None
    /\ runs = 0
    /\ total = 0
    /\ label = classify_total_response(0)
    /\ store_frame = <<>>
    /\ netted = None

ClassifyTotalResponse ==
    /\ \E t \in ClassifyInputs :
          /\ total' = t
          /\ label' = classify_total_response(t)
    /\ UNCHANGED <<files, netting_off_threshold, approval_filter, tender_metrics, result,
                   runs, store_frame, netted>>

NextClassify == ClassifyTotalResponse

SpecClassify == InitClassify /\ [][NextClassify]_vars

----------------------------------------------------------------------------
(* What the properties speak of *)

\* The entries the run ingested, and what is known of one store.
Ingest == CombinedData(Ingested(files), 1)
StoreEntries(s) == StoreRows(Ingest, s)
NetTotal(s) == SumResp(StoreEntries(s))
InputStores == SeqToSet(StoreIds(Ingest))
CandidateStores == {s \in InputStores : Abs(NetTotal(s)) >= Hundred}

Returned == result # None
Bundle == result[1]

SummaryStores == {Bundle.summary[p].Store_ID : p \in 1..Len(Bundle.summary)}
ExceptionRows(s) ==
    Flatten([k \in 1..Len(Bundle.tender_names) |->
                SelectSeq(Bundle.exceptions[Bundle.tender_names[k]],
                          LAMBDA e : e.Store_ID = s)])
LogRecords(s) == SelectSeq(Bundle.netting_reference, LAMBDA r : r.Store_ID = s)
OutputStores ==
    SummaryStores
    \cup {s \in InputStores : ExceptionRows(s) # <<>>}
    \cup {Bundle.netting_reference[p].Store_ID : p \in 1..Len(Bundle.netting_reference)}

\* The sorted frame of a store, its netting passes, and the sum and the tenders
\* of the member entries of one of its netting records.
Passes(s) == NettingPasses(StoreEntries(s), netting_off_threshold)
Found(s) == find_and_remove_netting_items(StoreEntries(s), netting_off_threshold)
MemberSum(rec) == SumAt(SortDesc(StoreEntries(rec.Store_ID)), rec.Netting_Members)
MemberTenders(rec) ==
    {SortDesc(StoreEntries(rec.Store_ID))[p].Tender_Type : p \in SeqToSet(rec.Netting_Members)}

RECURSIVE NettedSum(_)
NettedSum(recs) == IF recs = <<>> THEN 0 ELSE MemberSum(Head(recs)) + NettedSum(Tail(recs))

RECURSIVE VarianceSum(_)
VarianceSum(recs) ==
    IF recs = <<>> THEN 0 ELSE Head(recs).Combined_Variance + VarianceSum(Tail(recs))

\* The sum of the entries of store s that no pass marked used.
NeverUsedSum(s) ==
    IF Len(StoreEntries(s)) <= 1 THEN NetTotal(s)
    ELSE LET n == Passes(s)
         IN SumAt(n.df, Ascending(Unused(n.df, n.used)))

----------------------------------------------------------------------------
(* Properties *)

\* C1 (gate correctness): a store whose |net_total| is below 100 appears in no
\* output table of a run: not in the store summary, not in a per-tender
\* exception table, not in the netting log.
C1_GateCorrectness ==
    Returned => LET reported == OutputStores
                IN \A s \in InputStores \cup reported :
                      Abs(NetTotal(s)) < Hundred => s \notin reported

\* A run that reported a store while another store, below the gate, holds a
\* pair that nets off.
C1_Witness ==
    /\ runs > 0 /\ Returned /\ OutputStores # {}
    /\ \E s \in InputStores :
          /\ Abs(NetTotal(s)) < Hundred
          /\ Len(StoreEntries(s)) >= 2
          /\ Found(s).netting_ref # <<>>

\* C2 (netting invariant): every netting record, of the log and of
\* find_and_remove_netting_items on any store, has |sum of its members' values|
\* strictly below the netting threshold and carries that absolute sum as its
\* Combined_Variance.
C2_NettingInvariant ==
    /\ Returned =>
          \A p \in 1..Len(Bundle.netting_reference) :
             LET rec == Bundle.netting_reference[p]
             IN /\ Abs(MemberSum(rec)) < netting_off_threshold
                /\ rec.Combined_Variance = Abs(MemberSum(rec))
    /\ runs > 0 =>
          \A s \in InputStores :
             LET recs == Found(s).netting_ref
             IN \A p \in 1..Len(recs) :
                   /\ Abs(MemberSum(recs[p])) < netting_off_threshold
                   /\ recs[p].Combined_Variance = Abs(MemberSum(recs[p]))

\* The log holds a group of the third pass whose members do not cancel exactly.
C2_Witness ==
    /\ runs > 0 /\ Returned
    /\ \E p \in 1..Len(Bundle.netting_reference) :
          /\ Bundle.netting_reference[p].Netting_Type = "Cross-Tender-Multiple entries"
          /\ Bundle.netting_reference[p].Combined_Variance > 0

RangeLabel(a) ==
    IF a < Hundred THEN "Diff less than +/- 100"
    ELSE IF a <= Amt(2000, 0) THEN "Diff b/w +/- 1000"
    ELSE IF a <= Amt(10000, 0) THEN "Diff b/w +/- 5000"
    ELSE IF a <= Amt(20000, 0) THEN "Diff b/w +/- 10000"
    ELSE IF a <= Amt(50000, 0) THEN "Diff b/w +/- 25000"
    ELSE IF a <= Amt(100000, 0) THEN "Diff b/w +/- 50000"
    ELSE "Diff more than +/- 50000"

\* C4 (classification): classify_total_response returns the label of the range
\* of the table [0,100), [100,1000], (1000,5000], ... that holds |total|; in
\* particular |total| = 100 is labelled "Diff b/w +/- 1000".
C4_Classification == label = RangeLabel(Abs(total))

\* C5 (idempotence): a second run of process_all_tenders on the same instance,
\* files and threshold returns what the first run returned.
C5_Idempotence == [][runs >= 1 => result' = result]_vars

\* Two runs were made and the tender performance table carries exception and
\* netting counts that a rerun could have accumulated.
C5_Witness ==
    /\ runs = 2 /\ Returned
    /\ \E p \in 1..Len(Bundle.tender_performance) :
          /\ Bundle.tender_performance[p].Exceptional_Entries > 0
          /\ Bundle.tender_performance[p].Items_Removed_by_Netting > 0

\* C6 (tender performance consistency): in every tender performance row
\* Exceptional_Entries <= Total_Entries and Exception_Rate_% is
\* Exceptional_Entries / Total_Entries * 100, and 0 when Total_Entries = 0.
C6_TenderPerformance ==
    Returned =>
        \A p \in 1..Len(Bundle.tender_performance) :
            LET row == Bundle.tender_performance[p]
            IN /\ row.Exceptional_Entries <= row.Total_Entries
               /\ row.Exception_Rate.den > 0
               /\ row.Total_Entries > 0 =>
                     row.Exception_Rate.num * row.Total_Entries
                         = row.Exceptional_Entries * 100 * row.Exception_Rate.den
               /\ row.Total_Entries = 0 => row.Exception_Rate.num = 0

\* A tender some of whose entries, and not all, are exceptional.
C6_Witness ==
    /\ runs > 0 /\ Returned
    /\ \E p \in 1..Len(Bundle.tender_performance) :
          /\ Bundle.tender_performance[p].Exceptional_Entries > 0
          /\ Bundle.tender_performance[p].Exceptional_Entries
                < Bundle.tender_performance[p].Total_Entries

\* Scenario D: threshold 5.0 and store 404 holding exactly four Cash entries of
\* one sales date with the values +50, -48, +30, -30.5.
ScenarioD ==
    /\ netting_off_threshold = Amt(10, 0)
    /\ Len(StoreEntries(404)) = 4
    /\ \A p \in 1..4 : /\ StoreEntries(404)[p].Tender_Type = "Cash"
                       /\ StoreEntries(404)[p].Sales_Date = StoreEntries(404)[1].Sales_Date
                       /\ StoreEntries(404)[p].Sales_Date # NaN
    /\ {StoreEntries(404)[p].Store_Response_Entry : p \in 1..4}
          = {Amt(100, 0), Amt(-96, 0), Amt(60, 0), Amt(-61, 0)}

NoException(s) == s \notin SummaryStores /\ ExceptionRows(s) = <<>>

\* C7 as stated (scenario D): no exception is recorded for store 404 and the
\* netting log holds exactly 2 Within-Tender records for it.
C7_ScenarioDLogged ==
    (runs > 0 /\ ScenarioD) =>
        /\ Returned
        /\ NoException(404)
        /\ Len(SelectSeq(LogRecords(404), LAMBDA r : r.Netting_Type = "Within-Tender")) = 2

\* C7 amended (scenario D): no exception is recorded for store 404 and the
\* netting log holds no record for it, the store's net total 1.5 being below
\* the candidate gate; find_and_remove_netting_items on its four entries
\* yields exactly the 2 Within-Tender pairs (50,-48) and (-30.5,30) and no
\* surviving entry.
C7_ScenarioD ==
    (runs > 0 /\ ScenarioD) =>
        LET found == Found(404)
        IN /\ Returned
           /\ NoException(404)
           /\ LogRecords(404) = <<>>
           /\ found.exceptional = <<>>
           /\ Len(found.netting_ref) = 2
           /\ \A p \in 1..2 : found.netting_ref[p].Netting_Type = "Within-Tender"
           /\ {<<found.netting_ref[p].Store_Response_Entry_1,
                 found.netting_ref[p].Store_Response_Entry_2>> : p \in 1..2}
                 = {<<Some(Amt(100, 0)), Some(Amt(-96, 0))>>,
                    <<Some(Amt(-61, 0)), Some(Amt(60, 0))>>}

C7_Witness == runs > 0 /\ ScenarioD

\* C8 (post-netting gate): a candidate store of two or more entries has a
\* summary row, and rows in the per-tender exception tables, exactly when the
\* |sum| of its never-used entries is >= 100 - 1e-6; in either case every
\* netting record found for it is in the netting log.
C8_PostNettingGate ==
    (runs > 0 /\ Returned) =>
        \A s \in CandidateStores :
            Len(StoreEntries(s)) >= 2 =>
                LET n == Passes(s)
                    never_used == SumAt(n.df, Ascending(Unused(n.df, n.used)))
                IN /\ s \in SummaryStores <=> Abs(never_used) >= Hundred - Tolerance
                   /\ ExceptionRows(s) # <<>> <=> Abs(never_used) >= Hundred - Tolerance
                   /\ LogRecords(s) = n.recs

\* A candidate store whose survivors fall short of the gate by less than 100,
\* reported nowhere but in the netting log.
C8_Witness ==
    /\ runs > 0 /\ Returned
    /\ \E s \in CandidateStores :
          /\ Len(StoreEntries(s)) >= 2
          /\ NeverUsedSum(s) # 0
          /\ Abs(NeverUsedSum(s)) < Hundred - Tolerance
          /\ s \notin SummaryStores
          /\ LogRecords(s) # <<>>

\* The netting records of the log that involve a tender: those with a member
\* entry of that tender.
Involving(t) == SelectSeq(Bundle.netting_reference, LAMBDA r : t \in MemberTenders(r))

\* C9 (netting metrics attribution): every netting record counts once, with
\* its variance, for every tender that has a member entry in it.
C9_NettingAttribution ==
    (runs > 0 /\ Returned) =>
        \A p \in 1..Len(Bundle.tender_performance) :
            LET row == Bundle.tender_performance[p]
            IN /\ row.Items_Removed_by_Netting = Len(Involving(row.Tender))
               /\ row.Total_Netting_Variance = VarianceSum(Involving(row.Tender))

\* C10 (exception-store count): 'exception_stores' is the number of rows of the
\* store summary table.
C10_ExceptionStoreCount ==
    (runs > 0 /\ Returned) => Bundle.exception_stores = Len(Bundle.summary)

\* A tender yields usable data when its file is a readable CSV with the
\* required columns and at least one of its rows has a store id, a non-zero
\* response value and an approval marker.
Usable(t) ==
    /\ files[t].format = Csv
    /\ \E p \in 1..Len(files[t].rows) :
          LET row == files[t].rows[p]
          IN /\ row.Store_ID # None
             /\ row.Store_Response_Entry # None
             /\ row.Store_Response_Entry[1] # 0
             /\ Strip(row.Auto_Approved_Date) \notin NullLikeMarkers

UsableTenders == SelectSeq(TenderLabels, Usable)

\* The tenders that have a row in some table of the bundle.
TendersInTables ==
    {t \in SeqToSet(TenderLabels) :
        \/ t \in DOMAIN Bundle.exceptions
        \/ \E p \in 1..Len(Bundle.tender_performance) :
              Bundle.tender_performance[p].Tender = t
        \/ \E p \in 1..Len(Bundle.summary) : t \in DOMAIN Bundle.summary[p].Tender_Sum
        \/ \E p \in 1..Len(Bundle.netting_reference) :
              t \in MemberTenders(Bundle.netting_reference[p])}

\* C11 (whole-run failure and non-fatal ingestion): process_all_tenders
\* returns None exactly when no tender yields usable data; otherwise it returns
\* a bundle made from the usable tenders alone, every tender whose ingestion
\* failed being excluded from it.
C11_NonFatalIngestion ==
    runs > 0 =>
        /\ result = None <=> UsableTenders = <<>>
        /\ Returned =>
              /\ Bundle.tender_names = UsableTenders
              /\ TendersInTables \subseteq SeqToSet(UsableTenders)
              /\ Bundle.total_stores =
                    Cardinality({e.Store_ID : e \in SeqToSet(Ingest)})
              /\ \A e \in SeqToSet(Ingest) : Usable(e.Tender_Type)

\* A run that returned a bundle with an exception store although the file of
\* one tender held rows and could not be ingested.
C11_Witness ==
    /\ runs > 0 /\ Returned
    /\ Len(Bundle.summary) > 0
    /\ \E t \in SeqToSet(TenderLabels) :
          /\ files[t].format # Csv
          /\ files[t].rows # <<>>
          /\ t \notin SeqToSet(Bundle.tender_names)

\* Every table of the bundle is empty.
TablesEmpty ==
    /\ Bundle.summary = <<>>
    /\ Bundle.classification = <<>>
    /\ \A t \in DOMAIN Bundle.exceptions : Bundle.exceptions[t] = <<>>
    /\ DOMAIN Bundle.exceptions = SeqToSet(Bundle.tender_names)
    /\ Bundle.netting_reference = <<>>
    /\ Bundle.tender_performance = <<>>

NoCandidateRun == runs > 0 /\ UsableTenders # <<>> /\ CandidateStores = {}

\* C12 as stated (no-candidate result): when a tender is ingested and no
\* store has |net_total| >= 100, a bundle is returned in which all tables are
\* empty and the counts, total_stores and exception_stores, are zero.
C12_EmptyBundleCountsZero ==
    NoCandidateRun =>
        /\ Returned
        /\ TablesEmpty
        /\ Bundle.exception_stores = 0
        /\ Bundle.total_stores = 0

\* C12 amended (no-candidate result): when a tender is ingested and no store
\* has |net_total| >= 100, a bundle is returned in which all tables are empty
\* and exception_stores is zero, while total_stores is the number of stores
\* aggregated and tender_names lists the ingested tenders.
C12_EmptyBundle ==
    NoCandidateRun =>
        /\ Returned
        /\ TablesEmpty
        /\ Bundle.exception_stores = 0
        /\ Bundle.total_stores = Cardinality(InputStores)
        /\ Bundle.total_stores > 0
        /\ Bundle.tender_names = UsableTenders

\* A run over two stores, both below the gate, one of them holding entries
\* that net off.
C12_Witness ==
    /\ NoCandidateRun /\ Returned
    /\ Cardinality(InputStores) = 2
    /\ \E s \in InputStores : Len(StoreEntries(s)) >= 2 /\ Found(s).netting_ref # <<>>

C14_Tolerance ==
    (runs > 0 /\ Returned) =>
        \A s \in InputStores :
            (Len(StoreEntries(s)) = 1 /\ Abs(NetTotal(s)) >= Hundred - Tolerance)
                => s \in SummaryStores

\* The rows of a file that have a store id, a non-zero response value and an
\* approval marker that is, once trimmed, neither empty nor null-like.
Approvable(row) ==
    /\ row.Store_ID # None
    /\ row.Store_Response_Entry # None
    /\ row.Store_Response_Entry[1] # 0
    /\ Strip(row.Auto_Approved_Date) \notin {"", "nan", "NA", "NULL", "0", "None"}

ReadOf(t) == read_tender_file(files[t], t)

\* C15 (Ingestor filtering): every entry read_tender_file returns has a store
\* id, a non-zero response value and a trimmed approval marker that is neither
\* empty nor one of nan, NA, NULL, 0, None, and carries the tender of the
\* call; the entries are the file's rows of that kind, in file order; a call
\* with no such row returns None, never an empty table.
C15_IngestorFiltering ==
    runs > 0 =>
        \A t \in SeqToSet(TenderLabels) :
            LET out == ReadOf(t)
                kept == SelectSeq(files[t].rows, Approvable)
            IN /\ out # Some(<<>>)
               /\ (files[t].format = Csv /\ kept # <<>>) => out # None
               /\ out # None =>
                     /\ Len(out[1]) = Len(kept)
                     /\ \A p \in 1..Len(out[1]) :
                           /\ out[1][p].Store_ID \in Int
                           /\ out[1][p].Store_ID = kept[p].Store_ID[1]
                           /\ out[1][p].Store_Response_Entry \in Int
                           /\ out[1][p].Store_Response_Entry # 0
                           /\ out[1][p].Store_Response_Entry = kept[p].Store_Response_Entry[1]
                           /\ out[1][p].Auto_Approved_Date
                                 \notin {"", "nan", "NA", "NULL", "0", "None"}
                           /\ out[1][p].Tender_Type = t
               /\ (files[t].format = Csv /\ kept = <<>>) => out = None

\* A run over a file from which a row was kept and a row dropped, and over a
\* file with rows of which none was kept.
C15_Witness ==
    /\ runs > 0
    /\ \E t \in SeqToSet(TenderLabels) :
          /\ ReadOf(t) # None
          /\ Len(ReadOf(t)[1]) < Len(files[t].rows)
    /\ \E t \in SeqToSet(TenderLabels) :
          /\ files[t].format = Csv
          /\ files[t].rows # <<>>
          /\ ReadOf(t) = None

\* What the Netter properties speak of: the frame sorted by descending
\* magnitude, the records the call returned, those of two members, and the
\* positions the pairs hold.
Sorted == SortDesc(store_frame)
Called == netted # None /\ Len(store_frame) >= 2
Records == netted[1].netting_ref
Survivors == netted[1].exceptional
PairKinds == {"Within-Tender", "Cross-Tender"}
PairRecords == SelectSeq(Records, LAMBDA r : r.Netting_Type \in PairKinds)
GroupRecords == SelectSeq(Records, LAMBDA r : r.Netting_Type \notin PairKinds)
Members(rec) == SeqToSet(rec.Netting_Members)
Paired == UNION {Members(PairRecords[q]) : q \in 1..Len(PairRecords)}
Value(p) == Sorted[p].Store_Response_Entry
Nets(i, j) == Abs(Value(i) + Value(j)) < netting_off_threshold

\* The positions used by the pairs whose first member comes before i.
UsedBefore(i) ==
    UNION {Members(PairRecords[q]) :
              q \in {x \in 1..Len(PairRecords) : PairRecords[x].Netting_Members[1] < i}}

\* C16 (pairwise greedy pass): over the frame sorted by descending magnitude,
\* every pair record joins a not-yet-used entry i with the first later
\* not-yet-used entry j such that |value(i) + value(j)| < netting threshold,
\* whatever their tenders and dates; its kind is Within-Tender when the two
\* tenders are equal and Cross-Tender otherwise; no entry is in two pairs; an
\* entry left unpaired had no eligible partner when its turn came; and +1500
\* with -1200 at threshold 5.0 both survive.
C16_PairwiseGreedy ==
    Called =>
        /\ \A q \in 1..Len(PairRecords) :
              LET rec == PairRecords[q]
                  i == rec.Netting_Members[1]
                  j == rec.Netting_Members[2]
              IN /\ Len(rec.Netting_Members) = 2
                 /\ i < j
                 /\ Nets(i, j)
                 /\ {i, j} \cap UsedBefore(i) = {}
                 /\ \A k \in (i + 1)..(j - 1) : k \in UsedBefore(i) \/ ~Nets(i, k)
                 /\ rec.Netting_Type =
                       IF Sorted[i].Tender_Type = Sorted[j].Tender_Type
                       THEN "Within-Tender" ELSE "Cross-Tender"
                 /\ rec.Store_Response_Entry_1 = Some(Value(i))
                 /\ rec.Store_Response_Entry_2 = Some(Value(j))
                 /\ rec = Records[q]
                 /\ \A r \in 1..Len(PairRecords) :
                       r # q => Members(PairRecords[r]) \cap {i, j} = {}
                 /\ q > 1 => PairRecords[q - 1].Netting_Members[1] < i
        /\ \A i \in 1..Len(Sorted) :
              i \notin Paired =>
                 \A k \in (i + 1)..Len(Sorted) : k \in UsedBefore(i) \/ ~Nets(i, k)
        /\ \A p \in 1..Len(Sorted) - 1 : Abs(Value(p)) >= Abs(Value(p + 1))
        /\ (/\ netting_off_threshold = Amt(10, 0)
            /\ {store_frame[p].Store_Response_Entry : p \in 1..Len(store_frame)}
                  = {Amt(3000, 0), Amt(-2400, 0)})
              => Records = <<>> /\ Len(Survivors) = 2

\* An entry that had two eligible partners of either tender and date was
\* paired with the first, the other was left unpaired.
C16_Witness ==
    /\ Called
    /\ \E q \in 1..Len(PairRecords) :
          LET i == PairRecords[q].Netting_Members[1]
              j == PairRecords[q].Netting_Members[2]
          IN /\ PairRecords[q].Netting_Type = "Cross-Tender"
             /\ Sorted[i].Sales_Date # NaN /\ Sorted[j].Sales_Date # NaN
             /\ Sorted[i].Sales_Date # Sorted[j].Sales_Date
             /\ \E k \in (j + 1)..Len(Sorted) : Nets(i, k) /\ k \notin Paired

\* The groups of the second pass: the entries no pair used that share a sales
\* date and a tender.  An entry without a sales date has the key NaN.
SameTenderGroup(d, t) ==
    {p \in 1..Len(Sorted) :
        /\ p \notin Paired
        /\ Sorted[p].Sales_Date = d
        /\ Sorted[p].Tender_Type = t}

GroupNets(G) == Cardinality(G) >= 2 /\ Abs(SumAt(Sorted, Ascending(G))) < netting_off_threshold

DatesOf == {Sorted[p].Sales_Date : p \in 1..Len(Sorted)}
TendersOf == {Sorted[p].Tender_Type : p \in 1..Len(Sorted)}

WithinMultipleRecords ==
    SelectSeq(Records, LAMBDA r : r.Netting_Type = "Within-Tender-Multiple entries")

\* The second pass over the groups keyed by the dates in D: every group that
\* nets off has exactly one Within-Tender-Multiple record, which carries the
\* group sum and the member list, and every such record is of such a group.
SecondPassOver(D) ==
    /\ \A d \in D, t \in TendersOf :
          LET G == SameTenderGroup(d, t)
          IN GroupNets(G) =>
                /\ Cardinality({q \in 1..Len(WithinMultipleRecords) :
                                   Members(WithinMultipleRecords[q]) = G}) = 1
                /\ \A q \in 1..Len(WithinMultipleRecords) :
                      Members(WithinMultipleRecords[q]) = G =>
                         LET rec == WithinMultipleRecords[q]
                         IN /\ rec.Group_Sum = Some(SumAt(Sorted, Ascending(G)))
                            /\ rec.Combined_Variance = Abs(SumAt(Sorted, Ascending(G)))
                            /\ rec.Netting_Members = Ascending(G)
                            /\ rec.Sales_Date = d
                            /\ rec.Tender_Type_1 = <<t>>
    /\ \A q \in 1..Len(WithinMultipleRecords) :
          \E d \in D, t \in TendersOf :
             /\ Members(WithinMultipleRecords[q]) = SameTenderGroup(d, t)
             /\ GroupNets(SameTenderGroup(d, t))
    /\ \A d \in D, t \in TendersOf :
          ~GroupNets(SameTenderGroup(d, t)) =>
             \A q \in 1..Len(WithinMultipleRecords) :
                Members(WithinMultipleRecords[q]) \cap SameTenderGroup(d, t) = {}

\* C17 as stated (multi-entry same-tender pass): the entries no pair used are
\* grouped by (sales_date, tender_type), those without a sales date forming
\* groups of their own, and every group of 2 or more whose |sum| is below the
\* threshold yields one Within-Tender-Multiple record.
C17_SameTenderGroupsAnyDate == Called => SecondPassOver(DatesOf)

\* C17 amended (multi-entry same-tender pass): the entries no pair used that
\* have a sales date are grouped by (sales_date, tender_type); every group of 2
\* or more whose |sum| is below the threshold is used as a whole and yields
\* exactly one Within-Tender-Multiple record with the group sum and the member
\* list; no other group, and no entry without a sales date, is touched.
C17_SameTenderGroups ==
    Called =>
        /\ SecondPassOver(DatesOf \ {NaN})
        /\ \A q \in 1..Len(WithinMultipleRecords) :
              /\ \A p \in Members(WithinMultipleRecords[q]) : Sorted[p].Sales_Date # NaN
              /\ \A e \in SeqToSet(Survivors) :
                    \A p \in Members(WithinMultipleRecords[q]) : Sorted[p] # e

\* Three entries of one tender and date net off as a group while a fourth
\* entry, of another group, stays.
C17_Witness ==
    /\ Called
    /\ Len(WithinMultipleRecords) = 1
    /\ Len(WithinMultipleRecords[1].Netting_Members) = 3
    /\ Len(Sorted) = 4
    /\ Survivors # <<>>

\* The entries the second pass used, the groups being keyed by the dates in D.
UsedBySecond(D) ==
    UNION {SameTenderGroup(d, t) :
              <<d, t>> \in {dt \in D \X TendersOf : GroupNets(SameTenderGroup(dt[1], dt[2]))}}

\* The groups of the third pass: the entries still unused that share a date.
DateGroup(D, d) ==
    {p \in 1..Len(Sorted) :
        /\ p \notin Paired
        /\ p \notin UsedBySecond(D)
        /\ Sorted[p].Sales_Date = d}

SpansTenders(G) == Cardinality({Sorted[p].Tender_Type : p \in G}) > 1

\* The third pass over the groups keyed by the dates in D: every group that
\* nets off has exactly one record, Cross-Tender-Multiple when it spans more
\* than one tender and Within-Tender-Multiple otherwise, and every
\* Cross-Tender-Multiple record is of such a group.
ThirdPassOver(D) ==
    /\ \A d \in D :
          LET G == DateGroup(D, d)
          IN IF GroupNets(G)
             THEN /\ Cardinality({q \in 1..Len(GroupRecords) :
                                     Members(GroupRecords[q]) = G}) = 1
                  /\ \A q \in 1..Len(GroupRecords) :
                        Members(GroupRecords[q]) = G =>
                           LET rec == GroupRecords[q]
                           IN /\ rec.Netting_Type =
                                    IF SpansTenders(G)
                                    THEN "Cross-Tender-Multiple entries"
                                    ELSE "Within-Tender-Multiple entries"
                              /\ rec.Group_Sum = Some(SumAt(Sorted, Ascending(G)))
                              /\ rec.Combined_Variance = Abs(SumAt(Sorted, Ascending(G)))
                              /\ rec.Netting_Members = Ascending(G)
                              /\ rec.Sales_Date = d
                              /\ SeqToSet(rec.Tender_Type_1) = {Sorted[p].Tender_Type : p \in G}
             ELSE \A q \in 1..Len(GroupRecords) : Members(GroupRecords[q]) \cap G = {}
    /\ \A q \in 1..Len(GroupRecords) :
          GroupRecords[q].Netting_Type = "Cross-Tender-Multiple entries" =>
             \E d \in D : /\ Members(GroupRecords[q]) = DateGroup(D, d)
                          /\ GroupNets(DateGroup(D, d))
                          /\ SpansTenders(DateGroup(D, d))

\* C18 as stated (multi-entry cross-tender pass): the entries unused after the
\* first two passes are grouped by sales_date alone, those without a sales
\* date forming a group of their own, and every group of 2 or more whose |sum|
\* is below the threshold yields one record.
C18_DateGroupsAnyDate == Called => ThirdPassOver(DatesOf)

\* C18 amended (multi-entry cross-tender pass): the entries unused after the
\* first two passes that have a sales date are grouped by sales_date alone;
\* every group of 2 or more whose |sum| is below the threshold is used as a
\* whole and yields exactly one record, Cross-Tender-Multiple when it spans
\* more than one tender and Within-Tender-Multiple otherwise; no entry without
\* a sales date is touched.
C18_DateGroups ==
    Called =>
        /\ ThirdPassOver(DatesOf \ {NaN})
        /\ \A q \in 1..Len(GroupRecords) :
              /\ \A p \in Members(GroupRecords[q]) : Sorted[p].Sales_Date # NaN
              /\ \A e \in SeqToSet(Survivors) :
                    \A p \in Members(GroupRecords[q]) : Sorted[p] # e

\* Three entries of one date and two tenders net off as a group while an
\* entry of another date stays.
C18_Witness ==
    /\ Called
    /\ Len(GroupRecords) = 1
    /\ GroupRecords[1].Netting_Type = "Cross-Tender-Multiple entries"
    /\ Len(GroupRecords[1].Netting_Members) = 3
    /\ GroupRecords[1].Combined_Variance > 0
    /\ Survivors # <<>>

\* The positions that are members of no record.
NeverUsed == {p \in 1..Len(Sorted) : \A q \in 1..Len(Records) : p \notin Members(Records[q])}

\* C19 (disjointness of netting): within one call no entry is a member of
\* more than one netting record, and no returned entry is a member of any:
\* the returned entries are the entries no record holds, or none at all.
C19_Disjointness ==
    Called =>
        /\ \A q \in 1..Len(Records) :
              /\ Members(Records[q]) \subseteq 1..Len(Sorted)
              /\ Cardinality(Members(Records[q])) = Len(Records[q].Netting_Members)
              /\ \A r \in 1..Len(Records) :
                    r # q => Members(Records[q]) \cap Members(Records[r]) = {}
              /\ \A p \in Members(Records[q]) : Sorted[p] \notin SeqToSet(Survivors)
        /\ Survivors \in {<<>>, RowsAt(Sorted, Ascending(NeverUsed))}

\* A pair was netted, an entry that nets off with a member of the pair was
\* left out of it, and entries were returned.
C19_Witness ==
    /\ Called
    /\ Survivors # <<>>
    /\ \E q \in 1..Len(Records) :
          \E k \in NeverUsed : Nets(Records[q].Netting_Members[1], k)

\* The surviving entries of a store: the entries no pass marked used.
SurvivingEntries(s) ==
    IF Len(StoreEntries(s)) <= 1 THEN StoreEntries(s)
    ELSE LET n == Passes(s)
         IN RowsAt(n.df, Ascending(Unused(n.df, n.used)))

\* The candidate stores whose surviving entries pass the post-netting gate.
GatedStores ==
    {s \in CandidateStores : Abs(SumResp(SurvivingEntries(s))) >= Hundred - Tolerance}

RECURSIVE SurvivorsOfTender(_, _)
SurvivorsOfTender(stores, t) ==
    IF stores = {} THEN 0
    ELSE LET s == Min(stores)
         IN Len(TenderRows(SurvivingEntries(s), t)) + SurvivorsOfTender(stores \ {s}, t)

\* C20 (exception-entry metric gating): for every tender, Exceptional_Entries
\* is the number of surviving entries of that tender over exactly the
\* candidate stores whose surviving entries pass the post-netting gate, which
\* is the number of rows of the tender's exception table.
C20_ExceptionEntryGating ==
    (runs > 0 /\ Returned) =>
        LET gated == GatedStores
        IN \A p \in 1..Len(Bundle.tender_performance) :
              LET row == Bundle.tender_performance[p]
              IN /\ row.Exceptional_Entries = SurvivorsOfTender(gated, row.Tender)
                 /\ row.Exceptional_Entries = Len(Bundle.exceptions[row.Tender])
                 /\ row.Exceptional_Entries = tender_metrics[row.Tender].exception_entries

\* A tender has counted exceptional entries of one store while another
\* candidate store holds a surviving entry of that tender and fails the gate.
C20_Witness ==
    /\ runs > 0 /\ Returned
    /\ \E p \in 1..Len(Bundle.tender_performance) :
          /\ Bundle.tender_performance[p].Exceptional_Entries > 0
          /\ \E s \in CandidateStores \ GatedStores :
                TenderRows(SurvivingEntries(s), Bundle.tender_performance[p].Tender) # <<>>

\* The used flags and the records when the pairwise pass ends.
AfterPairWise == PairWise(Sorted, netting_off_threshold)

\* C21 (pairwise maximality): when the pairwise pass ends no two not-yet-used
\* entries of the store have |value sum| below the netting threshold, and so
\* every record of kind Within-Tender-Multiple or Cross-Tender-Multiple has at
\* least 3 members.
C21_PairwiseMaximality ==
    Called =>
        /\ \A i \in 1..Len(Sorted), k \in 1..Len(Sorted) :
              (i < k /\ ~AfterPairWise.used[i] /\ ~AfterPairWise.used[k]) => ~Nets(i, k)
        /\ \A i \in 1..Len(Sorted), k \in 1..Len(Sorted) :
              (i < k /\ i \notin Paired /\ k \notin Paired) => ~Nets(i, k)
        /\ \A q \in 1..Len(GroupRecords) :
              /\ GroupRecords[q].Netting_Type \in {"Within-Tender-Multiple entries",
                                                   "Cross-Tender-Multiple entries"}
              /\ Len(GroupRecords[q].Netting_Members) >= 3

\* A pair was netted and the two entries left, of one tender and date, were
\* examined as a group by the second pass.
C21_Witness ==
    /\ Called
    /\ PairRecords # <<>>
    /\ \E d \in DatesOf \ {NaN}, t \in TendersOf : Cardinality(SameTenderGroup(d, t)) = 2

\* The records when the second pass ends, and those the third pass added.
AfterWithinMultiple == WithinMultiple(Sorted, AfterPairWise, netting_off_threshold)
ThirdPassRecords == SubSeq(Records, Len(AfterWithinMultiple.recs) + 1, Len(Records))

\* C22 (third pass is always cross-tender): every record the third pass emits
\* spans more than one tender type and has kind Cross-Tender-Multiple; every
\* Within-Tender-Multiple record is one of the second pass, of a
\* (sales_date, tender_type) group.
C22_ThirdPassCrossTender ==
    Called =>
        /\ \A q \in 1..Len(ThirdPassRecords) :
              /\ ThirdPassRecords[q].Netting_Type = "Cross-Tender-Multiple entries"
              /\ SpansTenders(Members(ThirdPassRecords[q]))
              /\ Len(ThirdPassRecords[q].Tender_Type_1) > 1
        /\ \A q \in 1..Len(WithinMultipleRecords) :
              /\ q + Len(PairRecords) <= Len(AfterWithinMultiple.recs)
              /\ WithinMultipleRecords[q] = AfterWithinMultiple.recs[q + Len(PairRecords)]
              /\ ~SpansTenders(Members(WithinMultipleRecords[q]))

\* The third pass netted a date group that holds two entries of one tender
\* which the second pass had examined as a group and left.
C22_Witness ==
    /\ Called
    /\ \E q \in 1..Len(ThirdPassRecords) :
          \E d \in DatesOf \ {NaN}, t \in TendersOf :
             /\ Cardinality(SameTenderGroup(d, t)) >= 2
             /\ SameTenderGroup(d, t) \subseteq Members(ThirdPassRecords[q])
             /\ SameTenderGroup(d, t) # Members(ThirdPassRecords[q])

\* The stores with a row in a per-tender exception table, and the rows of one
\* store in the table of one tender.
ExceptionTableStores ==
    UNION {{Bundle.exceptions[t][p].Store_ID : p \in 1..Len(Bundle.exceptions[t])} :
              t \in DOMAIN Bundle.exceptions}
TableRows(t, s) == SelectSeq(Bundle.exceptions[t], LAMBDA e : e.Store_ID = s)

RECURSIVE TenderSums(_, _)
TenderSums(row, tenders) ==
    IF tenders = <<>> THEN 0
    ELSE row.Tender_Sum[Head(tenders)] + TenderSums(row, Tail(tenders))

RECURSIVE TableRowCount(_, _)
TableRowCount(s, tenders) ==
    IF tenders = <<>> THEN 0
    ELSE Len(TableRows(Head(tenders), s)) + TableRowCount(s, Tail(tenders))

\* C23 (summary and exception tables agree): the stores with a summary row
\* are the stores with a row in a per-tender exception table, one summary row
\* each; a store's Exceptional_Line_Items is its number of rows across the
\* exception tables and at most its Total_Auto-Updated_Responses, its
\* Sum_of_Exceptional_Responses is the sum of its <tender>_Sum columns, and
\* each <tender>_Sum is the sum of its rows in that tender's table.
C23_SummaryMatchesExceptions ==
    (runs > 0 /\ Returned) =>
        /\ SummaryStores = ExceptionTableStores
        /\ Cardinality(SummaryStores) = Len(Bundle.summary)
        /\ \A p \in 1..Len(Bundle.summary) :
              LET row == Bundle.summary[p]
              IN /\ DOMAIN row.Tender_Sum = SeqToSet(Bundle.tender_names)
                 /\ row.Exceptional_Line_Items
                       = TableRowCount(row.Store_ID, Bundle.tender_names)
                 /\ row.Exceptional_Line_Items >= 1
                 /\ row.Exceptional_Line_Items <= row.Total_Auto_Updated_Responses
                 /\ row.Sum_of_Exceptional_Responses
                       = TenderSums(row, Bundle.tender_names)
                 /\ \A t \in DOMAIN row.Tender_Sum :
                       row.Tender_Sum[t] = SumResp(TableRows(t, row.Store_ID))

\* A store is reported with exceptional items of two tenders, fewer than the
\* responses it had, the others having been netted.
C23_Witness ==
    /\ runs > 0 /\ Returned
    /\ \E p \in 1..Len(Bundle.summary) :
          LET row == Bundle.summary[p]
          IN /\ Cardinality({t \in DOMAIN row.Tender_Sum : row.Tender_Sum[t] # 0}) = 2
             /\ row.Exceptional_Line_Items < row.Total_Auto_Updated_Responses
             /\ LogRecords(row.Store_ID) # <<>>

=============================================================================
